---- MODULE Spec2Model ----
(***************************************************************************)
(* Nine Men's Morris rules engine (src/nine_mens_morris.py): the classes   *)
(* Player, BoardManager and Game, driven through Game.handle_action        *)
(* (dispatch_action) and Game.undo_action (undo).                          *)
(*                                                                         *)
(* A game value g is the record                                            *)
(*   [board, hand, onb, cur, phase, sel, hist]                             *)
(* holding BoardManager.board, the two players' pieces_in_hand and         *)
(* pieces_on_board, Game.current_player (by symbol), Game.current_phase,   *)
(* Game.selected_piece and Game.game_history.  Every method is an operator *)
(* from a game value to a game value (and a return value where the method  *)
(* returns one).  A return value is "true", "false" or "raise" (an         *)
(* IndexError leaving handle_action).                                      *)
(***************************************************************************)
EXTENDS Integers, Sequences, FiniteSets

\* ------------------------------------------------------------------ data

BoardSize == 24
PiecesPerPlayer == 9
\* Game.selected_piece = None
None == 99

Symbols == {"X", "O"}
Cells == 0 .. (BoardSize - 1)

\* list("." * 24)
make_new_board == [i \in Cells |-> "."]

\* A Python list index: -24..23 are accepted, a negative one counts from the
\* end; any other index raises IndexError.
Valid(p) == p \in (0 - BoardSize) .. (BoardSize - 1)
Cell(p) == IF p < 0 THEN p + BoardSize ELSE p

adjacent_arrays ==
  << {1, 9}, {0, 2, 4}, {1, 14},
     {10, 4}, {1, 3, 7, 5}, {4, 13},
     {7, 11}, {4, 6, 8}, {7, 12},
     {0, 10, 21}, {3, 9, 18, 11}, {6, 10, 15},
     {8, 13, 17}, {5, 12, 20, 14}, {2, 13, 23},
     {11, 16}, {15, 17, 19}, {12, 16},
     {10, 19}, {16, 18, 22, 20}, {13, 19},
     {9, 22}, {19, 21, 23}, {14, 22} >>

mills_arrays ==
  << {0, 1, 2}, {3, 4, 5}, {6, 7, 8}, {9, 10, 11},
     {12, 13, 14}, {15, 16, 17}, {18, 19, 20}, {21, 22, 23},
     {0, 9, 21}, {3, 10, 18}, {6, 11, 15}, {1, 4, 7},
     {16, 19, 22}, {8, 12, 17}, {5, 13, 20}, {2, 14, 23} >>

\* ------------------------------------------------------------ BoardManager

is_position_empty(b, position) == b[Cell(position)] = "."

who_on_position(b, position) == b[Cell(position)]

get_players_positions(b, player_symbol) == {i \in Cells : b[i] = player_symbol}

get_empty_positions(b) == {i \in Cells : b[i] = "."}

get_empty_adjacent_positions(b, position) ==
  {adj \in adjacent_arrays[Cell(position) + 1] : is_position_empty(b, adj)}

\* Each mutation returns [board, ok]: the board as the method leaves it and
\* the method's return value; position is a valid index here.
\* add_player_piece writing the cell before it tests it.
add_player_piece_overwrites(b, position, player_symbol) ==
  [board |-> [b EXCEPT ![Cell(position)] = player_symbol],
   ok |-> is_position_empty(b, position)]

add_player_piece(b, position, player_symbol) ==
  IF is_position_empty(b, position)
  THEN [board |-> [b EXCEPT ![Cell(position)] = player_symbol], ok |-> TRUE]
  ELSE [board |-> b, ok |-> FALSE]

remove_player_piece(b, position) ==
  IF ~is_position_empty(b, position)
  THEN [board |-> [b EXCEPT ![Cell(position)] = "."], ok |-> TRUE]
  ELSE [board |-> b, ok |-> FALSE]

\* The conjunction is evaluated left to right: board[to_position] is read
\* (and may raise) only when board[from_position] holds the symbol.
move_raises(b, from_position, to_position, player_symbol) ==
  b[Cell(from_position)] = player_symbol /\ ~Valid(to_position)

\* move_player_piece without the adjacency test.
move_player_piece_any_distance(b, from_position, to_position, player_symbol) ==
  IF /\ b[Cell(from_position)] = player_symbol
     /\ is_position_empty(b, to_position)
  THEN [board |-> [b EXCEPT ![Cell(from_position)] = ".",
                            ![Cell(to_position)] = player_symbol],
        ok |-> TRUE]
  ELSE [board |-> b, ok |-> FALSE]

move_player_piece(b, from_position, to_position, player_symbol) ==
  IF /\ b[Cell(from_position)] = player_symbol
     /\ is_position_empty(b, to_position)
     /\ to_position \in adjacent_arrays[Cell(from_position) + 1]
  THEN [board |-> [b EXCEPT ![Cell(from_position)] = ".",
                            ![Cell(to_position)] = player_symbol],
        ok |-> TRUE]
  ELSE [board |-> b, ok |-> FALSE]

\* fly_player_piece leaving the piece on its origin as well.
fly_player_piece_keeps_origin(b, from_position, to_position, player_symbol) ==
  IF /\ b[Cell(from_position)] = player_symbol
     /\ is_position_empty(b, to_position)
  THEN [board |-> [b EXCEPT ![Cell(to_position)] = player_symbol],
        ok |-> TRUE]
  ELSE [board |-> b, ok |-> FALSE]

fly_player_piece(b, from_position, to_position, player_symbol) ==
  IF /\ b[Cell(from_position)] = player_symbol
     /\ is_position_empty(b, to_position)
  THEN [board |-> [b EXCEPT ![Cell(from_position)] = ".",
                            ![Cell(to_position)] = player_symbol],
        ok |-> TRUE]
  ELSE [board |-> b, ok |-> FALSE]

\* ------------------------------------------------------------------ Player

\* place_piece without the test for a piece in hand.
place_piece_no_guard(g, pl) ==
  [g EXCEPT !.hand[pl] = @ - 1, !.onb[pl] = @ + 1]

place_piece(g, pl) ==
  IF g.hand[pl] > 0
  THEN [g EXCEPT !.hand[pl] = @ - 1, !.onb[pl] = @ + 1]
  ELSE g

\* remove_piece leaving the counter as it is.
remove_piece_no_decrement(g, pl) == g

remove_piece(g, pl) ==
  IF g.onb[pl] > 0
  THEN [g EXCEPT !.onb[pl] = @ - 1]
  ELSE g

\* -------------------------------------------------------------------- Game

opponent_player(g) == IF g.cur = "X" THEN "O" ELSE "X"

switch_player(g) == [g EXCEPT !.cur = opponent_player(g)]

get_allowed_moves(g, position_just_placed) ==
  IF g.phase = "PLACING" THEN get_empty_positions(g.board)
  ELSE IF g.phase = "FLYING" THEN get_empty_positions(g.board)
  ELSE IF g.phase = "MOVING"
       THEN get_empty_adjacent_positions(g.board, position_just_placed)
  ELSE {}

\* `location in mill` compares the position as given: a negative index is in
\* no mill.
\* is_position_part_of_mill deciding on the first mill line that contains the
\* location.
is_position_part_of_mill_first_line(b, location) ==
  LET symbol_at_pos == who_on_position(b, location)
      lines == {m \in 1 .. Len(mills_arrays) : location \in mills_arrays[m]}
  IN
    /\ symbol_at_pos # "."
    /\ \E m \in lines :
         /\ \A k \in lines : m <= k
         /\ \A pos \in mills_arrays[m] : b[pos] = symbol_at_pos

is_position_part_of_mill(b, location) ==
  LET symbol_at_pos == who_on_position(b, location) IN
    /\ symbol_at_pos # "."
    /\ \E m \in 1 .. Len(mills_arrays) :
         /\ location \in mills_arrays[m]
         /\ \A pos \in mills_arrays[m] : b[pos] = symbol_at_pos

\* get_allowed_removals without the fall-back to all opponent positions.
get_allowed_removals_no_fallback(g) ==
  LET opponent_positions == get_players_positions(g.board, opponent_player(g))
  IN {pos \in opponent_positions : ~is_position_part_of_mill(g.board, pos)}

get_allowed_removals(g) ==
  LET opponent_positions == get_players_positions(g.board, opponent_player(g))
      non_mill_positions ==
        {pos \in opponent_positions : ~is_position_part_of_mill(g.board, pos)}
  IN IF non_mill_positions # {} THEN non_mill_positions ELSE opponent_positions

\* check_win_condition counting the opponent's pieces without the test for
\* empty hands.
check_win_condition_ignores_hands(g) ==
  LET cur == g.cur
      opp == opponent_player(g)
      opponent_positions == get_players_positions(g.board, opp)
  IN IF g.onb[opp] < 3 THEN TRUE
     ELSE IF opponent_positions = {} THEN FALSE
     ELSE IF \E pos \in opponent_positions : get_allowed_moves(g, pos) # {}
          THEN FALSE
     ELSE IF g.hand[cur] >= 0 \/ g.hand[opp] >= 0 THEN FALSE
     ELSE TRUE

\* check_win_condition with the material threshold one lower.
check_win_condition_below_two(g) ==
  LET cur == g.cur
      opp == opponent_player(g)
      opponent_positions == get_players_positions(g.board, opp)
  IN IF g.hand[cur] = 0 /\ g.hand[opp] = 0 /\ g.onb[opp] < 2 THEN TRUE
     ELSE IF opponent_positions = {} THEN FALSE
     ELSE IF \E pos \in opponent_positions : get_allowed_moves(g, pos) # {}
          THEN FALSE
     ELSE IF g.hand[cur] >= 0 \/ g.hand[opp] >= 0 THEN FALSE
     ELSE TRUE

check_win_condition(g) ==
  LET cur == g.cur
      opp == opponent_player(g)
      opponent_positions == get_players_positions(g.board, opp)
  IN IF g.hand[cur] = 0 /\ g.hand[opp] = 0 /\ g.onb[opp] < 3 THEN TRUE
     ELSE IF opponent_positions = {} THEN FALSE
     ELSE IF \E pos \in opponent_positions : get_allowed_moves(g, pos) # {}
          THEN FALSE
     ELSE IF g.hand[cur] >= 0 \/ g.hand[opp] >= 0 THEN FALSE
     ELSE TRUE

\* update_game_phase choosing FLYING with four pieces on board as well.
update_game_phase_flies_with_four(g) ==
  IF check_win_condition(g) THEN [g EXCEPT !.phase = "GAME_OVER"]
  ELSE IF g.hand[g.cur] > 0 THEN [g EXCEPT !.phase = "PLACING"]
  ELSE IF g.onb[g.cur] \in {3, 4} THEN [g EXCEPT !.phase = "FLYING"]
  ELSE [g EXCEPT !.phase = "MOVING"]

update_game_phase(g) ==
  IF check_win_condition(g) THEN [g EXCEPT !.phase = "GAME_OVER"]
  ELSE IF g.hand[g.cur] > 0 THEN [g EXCEPT !.phase = "PLACING"]
  ELSE IF g.onb[g.cur] = 3 THEN [g EXCEPT !.phase = "FLYING"]
  ELSE [g EXCEPT !.phase = "MOVING"]

\* finalize_turn entering REMOVING_PIECE without the mill test.
finalize_turn_always_removing(g, position) ==
  IF check_win_condition(g) THEN [g EXCEPT !.phase = "GAME_OVER"]
  ELSE [g EXCEPT !.phase = "REMOVING_PIECE"]

\* finalize_turn passing the turn on after a mill as well.
finalize_turn_mill_switches(g, position) ==
  IF check_win_condition(g) THEN [g EXCEPT !.phase = "GAME_OVER"]
  ELSE IF is_position_part_of_mill(g.board, position)
       THEN [switch_player(g) EXCEPT !.phase = "REMOVING_PIECE"]
  ELSE update_game_phase(switch_player(g))

finalize_turn(g, position) ==
  IF check_win_condition(g) THEN [g EXCEPT !.phase = "GAME_OVER"]
  ELSE IF is_position_part_of_mill(g.board, position)
       THEN [g EXCEPT !.phase = "REMOVING_PIECE"]
  ELSE update_game_phase(switch_player(g))

Ret(g, r) == [g |-> g, ret |-> r]

handle_placing(g, position) ==
  IF ~Valid(position) THEN Ret(g, "raise")
  ELSE LET a == add_player_piece(g.board, position, g.cur)
           g1 == [g EXCEPT !.board = a.board] IN
    IF a.ok
    THEN Ret(finalize_turn(place_piece(g1, g.cur), position), "true")
    ELSE Ret(g1, "false")

\* handle_moving selecting a piece without the test for an empty adjacent
\* cell.
handle_moving_selects_blocked(g, position) ==
  IF g.sel = None
  THEN IF ~Valid(position) THEN Ret(g, "raise")
       ELSE IF who_on_position(g.board, position) = g.cur
            THEN Ret([g EXCEPT !.sel = position], "true")
       ELSE Ret(g, "false")
  ELSE IF position = g.sel THEN Ret([g EXCEPT !.sel = None], "true")
  ELSE IF move_raises(g.board, g.sel, position, g.cur) THEN Ret(g, "raise")
  ELSE LET m == move_player_piece(g.board, g.sel, position, g.cur)
           g1 == [g EXCEPT !.board = m.board] IN
    IF m.ok
    THEN Ret([finalize_turn(g1, position) EXCEPT !.sel = None], "true")
    ELSE Ret(g1, "false")

handle_moving(g, position) ==
  IF g.sel = None
  THEN IF ~Valid(position) THEN Ret(g, "raise")
       ELSE IF /\ who_on_position(g.board, position) = g.cur
               /\ get_empty_adjacent_positions(g.board, position) # {}
            THEN Ret([g EXCEPT !.sel = position], "true")
       ELSE Ret(g, "false")
  ELSE IF position = g.sel THEN Ret([g EXCEPT !.sel = None], "true")
  ELSE IF move_raises(g.board, g.sel, position, g.cur) THEN Ret(g, "raise")
  ELSE LET m == move_player_piece(g.board, g.sel, position, g.cur)
           g1 == [g EXCEPT !.board = m.board] IN
    IF m.ok
    THEN Ret([finalize_turn(g1, position) EXCEPT !.sel = None], "true")
    ELSE Ret(g1, "false")

handle_flying(g, position) ==
  IF g.sel = None
  THEN IF ~Valid(position) THEN Ret(g, "raise")
       ELSE IF who_on_position(g.board, position) = g.cur
            THEN Ret([g EXCEPT !.sel = position], "true")
       ELSE Ret(g, "false")
  ELSE IF position = g.sel THEN Ret([g EXCEPT !.sel = None], "true")
  ELSE IF move_raises(g.board, g.sel, position, g.cur) THEN Ret(g, "raise")
  ELSE LET m == fly_player_piece(g.board, g.sel, position, g.cur)
           g1 == [g EXCEPT !.board = m.board] IN
    IF m.ok
    THEN Ret([finalize_turn(g1, position) EXCEPT !.sel = None], "true")
    ELSE Ret(g1, "false")

\* The second check_win_condition() call of handle_removing_piece discards
\* its result.  First, handle_removing_piece without the call of
\* finalize_turn.
handle_removing_piece_no_finalize(g, position) ==
  IF position \in get_allowed_removals(g)
  THEN LET r == remove_player_piece(g.board, position)
            g1 == [g EXCEPT !.board = r.board] IN
    IF r.ok
    THEN Ret(remove_piece(g1, opponent_player(g)), "true")
    ELSE Ret(g1, "false")
  ELSE Ret(g, "false")

handle_removing_piece(g, position) ==
  IF position \in get_allowed_removals(g)
  THEN LET r == remove_player_piece(g.board, position)
            g1 == [g EXCEPT !.board = r.board] IN
    IF r.ok
    THEN Ret(finalize_turn(remove_piece(g1, opponent_player(g)), position),
             "true")
    ELSE Ret(g1, "false")
  ELSE Ret(g, "false")

\* record_game_action recording the opponent as the player.
record_game_action_records_opponent(g, position) ==
  [g EXCEPT !.hist = Append(@, [board |-> g.board,
                                player |-> opponent_player(g),
                                phase |-> g.phase, position |-> position])]

record_game_action(g, position) ==
  [g EXCEPT !.hist = Append(@, [board |-> g.board, player |-> g.cur,
                                phase |-> g.phase, position |-> position])]

\* handle_action recording the call in GAME_OVER too.
handle_action_records_when_over(g, position) ==
  IF g.phase = "PLACING"
  THEN handle_placing(record_game_action(g, position), position)
  ELSE IF g.phase = "MOVING"
  THEN handle_moving(record_game_action(g, position), position)
  ELSE IF g.phase = "REMOVING_PIECE"
  THEN handle_removing_piece(record_game_action(g, position), position)
  ELSE IF g.phase = "FLYING"
  THEN handle_flying(record_game_action(g, position), position)
  ELSE Ret(record_game_action(g, position), "false")

handle_action(g, position) ==
  IF g.phase = "PLACING"
  THEN handle_placing(record_game_action(g, position), position)
  ELSE IF g.phase = "MOVING"
  THEN handle_moving(record_game_action(g, position), position)
  ELSE IF g.phase = "REMOVING_PIECE"
  THEN handle_removing_piece(record_game_action(g, position), position)
  ELSE IF g.phase = "FLYING"
  THEN handle_flying(record_game_action(g, position), position)
  ELSE Ret(g, "false")

\* undo_action that does not restore the phase.
undo_action_keeps_phase(g) ==
  IF g.hist = << >> THEN Ret(g, "false")
  ELSE LET last_state == g.hist[Len(g.hist)] IN
    Ret([g EXCEPT !.hist = SubSeq(@, 1, Len(@) - 1),
                  !.board = last_state.board,
                  !.cur = last_state.player], "true")

\* undo_action without the test for an empty history.
undo_action_true_on_empty(g) ==
  IF g.hist = << >> THEN Ret(g, "true")
  ELSE LET last_state == g.hist[Len(g.hist)] IN
    Ret([g EXCEPT !.hist = SubSeq(@, 1, Len(@) - 1),
                  !.board = last_state.board,
                  !.cur = last_state.player,
                  !.phase = last_state.phase], "true")

undo_action(g) ==
  IF g.hist = << >> THEN Ret(g, "false")
  ELSE LET last_state == g.hist[Len(g.hist)] IN
    Ret([g EXCEPT !.hist = SubSeq(@, 1, Len(@) - 1),
                  !.board = last_state.board,
                  !.cur = last_state.player,
                  !.phase = last_state.phase], "true")

\* possible_legal_moves offering, in MOVING without a selection, every piece
\* of the current player.
possible_legal_moves_offers_blocked(g) ==
  IF g.phase = "PLACING" THEN get_empty_positions(g.board)
  ELSE IF g.phase = "MOVING"
  THEN IF g.sel = None
       THEN get_players_positions(g.board, g.cur)
       ELSE get_empty_adjacent_positions(g.board, g.sel)
  ELSE IF g.phase = "FLYING"
  THEN IF g.sel = None
       THEN get_players_positions(g.board, g.cur)
       ELSE get_empty_positions(g.board)
  ELSE IF g.phase = "REMOVING_PIECE" THEN get_allowed_removals(g)
  ELSE {}

possible_legal_moves(g) ==
  IF g.phase = "PLACING" THEN get_empty_positions(g.board)
  ELSE IF g.phase = "MOVING"
  THEN IF g.sel = None
       THEN {pos \in get_players_positions(g.board, g.cur) :
               Cardinality(get_empty_adjacent_positions(g.board, pos)) > 0}
       ELSE get_empty_adjacent_positions(g.board, g.sel)
  ELSE IF g.phase = "FLYING"
  THEN IF g.sel = None
       THEN get_players_positions(g.board, g.cur)
       ELSE get_empty_positions(g.board)
  ELSE IF g.phase = "REMOVING_PIECE" THEN get_allowed_removals(g)
  ELSE {}

\* Game.__init__ (with Player.__init__ for both players)
NewGame ==
  [board |-> make_new_board,
   hand  |-> [s \in Symbols |-> PiecesPerPlayer],
   onb   |-> [s \in Symbols |-> 0],
   cur   |-> "X",
   phase |-> "PLACING",
   sel   |-> None,
   hist  |-> << >>]

\* ------------------------------------------------------------- the caller
\* The engine is driven by a caller that submits one position per call
\* (NineMensMorrisUI.run_game_loop).  The caller modelled here plays through
\* one of two recorded games and may, a bounded number of times, submit
\* some other position or call undo instead; once it has left the recorded
\* game it does not return to it.

\* Off-script calls one run may make.
MaxExtra == 2

\* A game won on material: mills by placement, by move and by flight.
ScriptA ==
  << 11, 3, 20, 17, 9, 6, 14, 15, 12, 10, 13, 10, 1, 19, 5, 18, 15, 2, 4, 22,
     18, 10, 22, 1, 0, 12, 8, 6, 7, 13, 12, 17, 16, 10, 18, 3, 16, 17, 20, 13,
     7, 17, 16, 18, 10, 5, 16, 1, 8, 19, 18, 0, 19, 11, 6, 2, 8, 13, 5, 8,
     11, 5, 13, 11 >>

\* Eighteen placements without a mill, after which no X piece can move.
ScriptB ==
  << 9, 14, 1, 0, 19, 13, 16, 4, 21, 22, 15, 3, 2, 20, 10, 17, 18, 11 >>

\* Both players complete a mill while placing; when X completes its own, all
\* three O pieces stand in a mill.
ScriptC == << 0, 3, 1, 4, 9, 5, 9, 2, 3 >>

\* Eighteen placements without a mill, after which no O piece can move and X
\* is to move.
ScriptD ==
  << 19, 22, 0, 14, 8, 5, 21, 6, 2, 1, 4, 20, 11, 23, 10, 18, 13, 7 >>

Scripts == << ScriptA, ScriptB, ScriptC, ScriptD >>

OutOfRange == {0 - BoardSize - 1, 0 - BoardSize, 0 - 1, BoardSize}

VARIABLES board, pieces_in_hand, pieces_on_board, current_player,
          current_phase, selected_piece, game_history,
          result, lastOp, lastPos, script, idx, extra

gameVars == << board, pieces_in_hand, pieces_on_board, current_player,
               current_phase, selected_piece, game_history >>
vars == << board, pieces_in_hand, pieces_on_board, current_player,
           current_phase, selected_piece, game_history,
           result, lastOp, lastPos, script, idx, extra >>

\* The Game object as a game value, and back.
G ==
  [board |-> board, hand |-> pieces_in_hand, onb |-> pieces_on_board,
   cur |-> current_player, phase |-> current_phase, sel |-> selected_piece,
   hist |-> game_history]

SetGame(g) ==
  /\ board' = g.board
  /\ pieces_in_hand' = g.hand
  /\ pieces_on_board' = g.onb
  /\ current_player' = g.cur
  /\ current_phase' = g.phase
  /\ selected_piece' = g.sel
  /\ game_history' = g.hist

Init ==
  /\ board = NewGame.board
  /\ pieces_in_hand = NewGame.hand
  /\ pieces_on_board = NewGame.onb
  /\ current_player = NewGame.cur
  /\ current_phase = NewGame.phase
  /\ selected_piece = NewGame.sel
  /\ game_history = NewGame.hist
  /\ result = "none"
  /\ lastOp = "init"
  /\ lastPos = None
  /\ script \in 1 .. Len(Scripts)
  /\ idx = 0
  /\ extra = 0

\* One call of Game.handle_action(position).
dispatch_action(position) ==
  LET r == handle_action(G, position) IN
    /\ SetGame(r.g)
    /\ result' = r.ret
    /\ lastOp' = "dispatch"
    /\ lastPos' = position

\* The caller submits the next position of its game.
Play ==
  /\ extra = 0
  /\ idx < Len(Scripts[script])
  /\ dispatch_action(Scripts[script][idx + 1])
  /\ idx' = idx + 1
  /\ UNCHANGED << script, extra >>

\* The caller submits some other position of the board.
Probe ==
  /\ extra < MaxExtra
  /\ \E p \in Cells : dispatch_action(p)
  /\ extra' = extra + 1
  /\ UNCHANGED << script, idx >>

\* The caller submits an integer that is no position of the board.
ProbeOutOfRange ==
  /\ extra < MaxExtra
  /\ \E p \in OutOfRange : dispatch_action(p)
  /\ extra' = extra + 1
  /\ UNCHANGED << script, idx >>

\* One call of Game.undo_action().
Undo ==
  /\ extra < MaxExtra
  /\ LET r == undo_action(G) IN
       /\ SetGame(r.g)
       /\ result' = r.ret
  /\ lastOp' = "undo"
  /\ lastPos' = None
  /\ extra' = extra + 1
  /\ UNCHANGED << script, idx >>

\* Runs of dispatch_action calls with positions 0..23.
Next == Play \/ Probe
Spec == Init /\ [][Next]_vars

\* Runs of dispatch_action and undo calls.
NextUndo == Play \/ Probe \/ Undo
SpecUndo == Init /\ [][NextUndo]_vars

\* Runs of dispatch_action calls with any integer.
NextRange == Play \/ Probe \/ ProbeOutOfRange
SpecRange == Init /\ [][NextRange]_vars

\* ---------------------------------------------------- board-level callers

\* Largest number of pieces put on the board by direct BoardManager calls.
MaxPieces == 3

\* A new Game; nothing has been dispatched.
InitBoards == Init /\ script = 1

\* BoardManager.add_player_piece(position, player_symbol) called on the
\* game's board directly; the Game and Player objects are not involved.
Arrange(position, player_symbol, limit) ==
  /\ BoardSize - Cardinality(get_empty_positions(board)) < limit
  /\ is_position_empty(board, position)
  /\ board' = add_player_piece(board, position, player_symbol).board
  /\ UNCHANGED << pieces_in_hand, pieces_on_board, current_player,
                  current_phase, selected_piece, game_history,
                  result, lastOp, lastPos, script, idx, extra >>

NextBoards ==
  \E position \in Cells, player_symbol \in Symbols :
    Arrange(position, player_symbol, MaxPieces)

SpecBoards == InitBoards /\ [][NextBoards]_vars

\* Largest number of pieces on the board when pieces are relocated by direct
\* BoardManager calls.
MaxRelocPieces == 2

\* BoardManager.move_player_piece called on the game's board directly, for a
\* piece that is on the board.
BoardMove(from_position, to_position, player_symbol) ==
  /\ who_on_position(board, from_position) = player_symbol
  /\ board' = move_player_piece(board, from_position, to_position,
                                player_symbol).board
  /\ UNCHANGED << pieces_in_hand, pieces_on_board, current_player,
                  current_phase, selected_piece, game_history,
                  result, lastOp, lastPos, script, idx, extra >>

\* BoardManager.fly_player_piece called on the game's board directly, for a
\* piece that is on the board.
BoardFly(from_position, to_position, player_symbol) ==
  /\ who_on_position(board, from_position) = player_symbol
  /\ board' = fly_player_piece(board, from_position, to_position,
                               player_symbol).board
  /\ UNCHANGED << pieces_in_hand, pieces_on_board, current_player,
                  current_phase, selected_piece, game_history,
                  result, lastOp, lastPos, script, idx, extra >>

NextRelocate ==
  \/ \E position \in Cells, player_symbol \in Symbols :
       Arrange(position, player_symbol, MaxRelocPieces)
  \/ \E from_position, to_position \in Cells, player_symbol \in Symbols :
       \/ BoardMove(from_position, to_position, player_symbol)
       \/ BoardFly(from_position, to_position, player_symbol)

SpecRelocate == InitBoards /\ [][NextRelocate]_vars

\* ------------------------------------------------------------ properties

Opp(s) == IF s = "X" THEN "O" ELSE "X"

\* Cells of board b holding symbol s.
Count(b, s) == Cardinality({i \in Cells : b[i] = s})

\* Cell p of board b lies on a mill line whose three cells all hold s.
InCompletedMill(b, p, s) ==
  \E m \in 1 .. Len(mills_arrays) :
    p \in mills_arrays[m] /\ \A q \in mills_arrays[m] : b[q] = s

\* Symbol s has a piece on board b and none of its pieces has an empty
\* adjacent cell.
Blockaded(b, s) ==
  /\ \E i \in Cells : b[i] = s
  /\ \A i \in Cells :
       b[i] = s => \A a \in adjacent_arrays[i + 1] : b[a] # "."

HandsEmpty(h) == h["X"] = 0 /\ h["O"] = 0

\* The step is a dispatch_action call, accepted or not.
Dispatched == lastOp' = "dispatch"

\* The step is an accepted dispatch_action.
Accepted == lastOp' = "dispatch" /\ result' = "true"

\* The step is an accepted placement, move or flight (not a selection, a
\* deselection or a removal); its destination is lastPos'.
PlacedOrRelocated ==
  /\ Accepted
  /\ \/ current_phase = "PLACING"
     \/ /\ current_phase \in {"MOVING", "FLYING"}
        /\ selected_piece # None
        /\ lastPos' # selected_piece

C2_BlockadeWins ==
  [][(/\ Accepted
      /\ board' # board
      /\ HandsEmpty(pieces_in_hand')
      /\ Count(board', Opp(current_player)) > 3
      /\ Blockaded(board', Opp(current_player)))
     => (current_phase' = "GAME_OVER"
         /\ current_player' = current_player)]_vars

\* C3: in REMOVING_PIECE with both hands empty, an accepted removal that
\* leaves the opponent with fewer than three pieces on board ends the game in
\* that call, keeps the remover as current player, and the remover has more
\* pieces on board than the opponent.
C3_MaterialWin ==
  [][(/\ Accepted
      /\ current_phase = "REMOVING_PIECE"
      /\ HandsEmpty(pieces_in_hand)
      /\ pieces_on_board'[Opp(current_player)] < 3)
     => (/\ current_phase' = "GAME_OVER"
         /\ current_player' = current_player
         /\ pieces_on_board'[current_player]
              > pieces_on_board'[Opp(current_player)])]_vars

\* A removal has just reduced the opponent to two pieces.
C3_Witness ==
  /\ lastOp = "dispatch" /\ result = "true"
  /\ current_phase = "GAME_OVER"
  /\ HandsEmpty(pieces_in_hand)
  /\ board[lastPos] = "."
  /\ pieces_on_board[Opp(current_player)] = 2

\* C4: for each player the number of cells holding the player's symbol
\* equals the player's pieces_on_board.
C4_BoardMatchesCounters ==
  \A s \in Symbols : Count(board, s) = pieces_on_board[s]

\* Both players have lost pieces to removals.
C4_Witness ==
  /\ lastOp = "dispatch" /\ result = "true"
  /\ board[lastPos] = "."
  /\ pieces_in_hand["X"] + pieces_on_board["X"] < PiecesPerPlayer
  /\ pieces_in_hand["O"] + pieces_on_board["O"] < PiecesPerPlayer

CountersInRange ==
  \A s \in Symbols :
    /\ pieces_in_hand[s] >= 0
    /\ pieces_on_board[s] >= 0
    /\ pieces_in_hand[s] + pieces_on_board[s] <= PiecesPerPlayer

\* C5: for each player pieces_in_hand >= 0, pieces_on_board >= 0 and their
\* sum is at most 9 in every state; no step increases pieces_in_hand, and a
\* step that increases pieces_on_board decrements the same player's
\* pieces_in_hand by one.
C5_Counters ==
  /\ CountersInRange
  /\ [][/\ CountersInRange'
        /\ \A s \in Symbols :
             /\ pieces_in_hand'[s] <= pieces_in_hand[s]
             /\ pieces_on_board'[s] > pieces_on_board[s]
                  => pieces_in_hand'[s] = pieces_in_hand[s] - 1]_vars

\* An undo has restored the PLACING phase for a player whose hand is already
\* empty, and the board no longer matches that player's counter.
C5_Witness ==
  /\ lastOp = "undo" /\ result = "true"
  /\ current_phase = "PLACING"
  /\ pieces_in_hand[current_player] = 0
  /\ Count(board, current_player) # pieces_on_board[current_player]

\* C6: a dispatch_action(p), p in 0..23, that returns false leaves the board,
\* both players' counters, the current player, the phase and the selected
\* piece as they were.
C6_RejectedChangesNothing ==
  [][(lastOp' = "dispatch" /\ lastPos' \in Cells /\ result' = "false")
     => UNCHANGED << board, pieces_in_hand, pieces_on_board, current_player,
                     current_phase, selected_piece >>]_vars

\* A placement on an occupied cell has just been rejected.
C6_Witness ==
  /\ lastOp = "dispatch" /\ result = "false"
  /\ current_phase = "PLACING"
  /\ board[lastPos] # "."

\* C7: a dispatch_action(p) with p outside 0..23 returns false, raises
\* nothing, and leaves the board, both players' counters, the current player,
\* the phase and the selected piece as they were.
C7_OutOfRangeRejected ==
  [][(lastOp' = "dispatch" /\ lastPos' \notin Cells)
     => (/\ result' = "false"
         /\ UNCHANGED << board, pieces_in_hand, pieces_on_board,
                         current_player, current_phase,
                         selected_piece >>)]_vars

\* C8: in GAME_OVER every dispatch_action(p), p in 0..23, returns false and
\* leaves the phase, the board, both players' counters, the current player,
\* the selected piece and the history as they were.
C8_GameOverTerminal ==
  [][(current_phase = "GAME_OVER" /\ lastOp' = "dispatch"
      /\ lastPos' \in Cells)
     => (result' = "false" /\ UNCHANGED gameVars)]_vars

\* A call made after the end of the game has just been rejected.
C8_Witness ==
  /\ lastOp = "dispatch" /\ result = "false"
  /\ current_phase = "GAME_OVER"

C10_UndoOnEmpty ==
  [][(lastOp' = "undo" /\ game_history = << >>)
     => (result' = "false" /\ UNCHANGED gameVars)]_vars

\* An undo has just been refused.
C10_Witness ==
  /\ lastOp = "undo" /\ result = "false"
  /\ game_history = << >>

\* The history's last entry (the record of the latest recorded call).
LastEntry == game_history[Len(game_history)]

\* The opponent's cells that are in no completed mill of the opponent, or all
\* of the opponent's cells when there is no such cell.
LegalRemovals(b, s) ==
  LET theirs == {i \in Cells : b[i] = Opp(s)}
      free == {i \in theirs : ~InCompletedMill(b, i, Opp(s))}
  IN IF free # {} THEN free ELSE theirs

\* C11: in REMOVING_PIECE the legal-removal set is the set of opponent cells
\* outside every completed opponent mill when that set is not empty, and
\* the set of all opponent cells otherwise, and dispatch_action(p) is
\* accepted exactly for the positions p of that set.
C11_LegalRemovals ==
  [][(Dispatched /\ current_phase = "REMOVING_PIECE")
     => (/\ get_allowed_removals(G) = LegalRemovals(board, current_player)
         /\ result' = "true"
              <=> lastPos' \in LegalRemovals(board, current_player))]_vars

\* A piece standing in a mill has just been removed: every piece of the
\* opponent was protected.
C11_Witness ==
  /\ lastOp = "dispatch" /\ result = "true"
  /\ game_history # << >>
  /\ LastEntry.phase = "REMOVING_PIECE"
  /\ LastEntry.position = lastPos
  /\ InCompletedMill(LastEntry.board, lastPos, Opp(LastEntry.player))

\* The phase rule applied to symbol s: PLACING with pieces in hand, else
\* FLYING with exactly three pieces on board, else MOVING.
PhaseRule(h, n, s) ==
  IF h[s] > 0 THEN "PLACING"
  ELSE IF n[s] = 3 THEN "FLYING"
  ELSE "MOVING"

\* Symbol s has a piece on board b and no piece of s has a destination under
\* the phase rule of s: any empty cell when placing or flying, an empty
\* adjacent cell when moving.
Stalemated(b, h, n, s) ==
  /\ \E i \in Cells : b[i] = s
  /\ IF PhaseRule(h, n, s) = "MOVING"
     THEN \A i \in Cells :
            b[i] = s => \A a \in adjacent_arrays[i + 1] : b[a] # "."
     ELSE \A i \in Cells : b[i] # "."

\* The win condition of symbol s against its opponent: with both hands empty
\* the opponent has fewer than three pieces on board, or the opponent is
\* stalemated.
WinCondition(b, h, n, s) ==
  \/ HandsEmpty(h) /\ n[Opp(s)] < 3
  \/ Stalemated(b, h, n, Opp(s))

\* The phase is the phase rule applied to the current player.
PhaseFollowsRule ==
  current_phase = PhaseRule(pieces_in_hand, pieces_on_board, current_player)

\* C12: in every state whose phase is PLACING, MOVING or FLYING the win
\* condition of the current player against the opponent does not hold and the
\* phase is the phase rule applied to the current player.
C12_PlayPhases ==
  current_phase \in {"PLACING", "MOVING", "FLYING"}
    => /\ ~WinCondition(board, pieces_in_hand, pieces_on_board,
                        current_player)
       /\ PhaseFollowsRule

HasEmptyAdjacent(b, p) == \E a \in adjacent_arrays[p + 1] : b[a] = "."

\* C14: in MOVING with no piece selected dispatch_action(p) is accepted
\* exactly when cell p holds the current player's symbol and has an empty
\* adjacent cell; when accepted it sets selected_piece to p and changes
\* nothing else; when rejected selected_piece stays unset.
C14_MovingSelect ==
  [][(Dispatched /\ current_phase = "MOVING" /\ selected_piece = None)
     => (/\ result' = "true"
              <=> (/\ board[lastPos'] = current_player
                   /\ HasEmptyAdjacent(board, lastPos'))
         /\ result' = "true"
              => /\ selected_piece' = lastPos'
                 /\ UNCHANGED << board, pieces_in_hand, pieces_on_board,
                                 current_player, current_phase >>
         /\ result' # "true" => selected_piece' = None)]_vars

\* The selection of an own piece without an empty adjacent cell has just
\* been rejected.
C14_Witness ==
  /\ lastOp = "dispatch" /\ result = "false"
  /\ current_phase = "MOVING" /\ selected_piece = None
  /\ board[lastPos] = current_player
  /\ ~HasEmptyAdjacent(board, lastPos)

\* The step leaves the state as finalize_turn does after the current player
\* has put a piece on cell p: the game is over with the same player, or p is
\* in a completed mill of that player, who keeps the turn in REMOVING_PIECE,
\* or p is in no mill and the opponent is current in its rule phase.
TurnFinalized(p) ==
  \/ /\ current_phase' = "GAME_OVER"
     /\ current_player' = current_player
  \/ /\ InCompletedMill(board', p, current_player)
     /\ current_phase' = "REMOVING_PIECE"
     /\ current_player' = current_player
  \/ /\ ~InCompletedMill(board', p, current_player)
     /\ current_player' = Opp(current_player)
     /\ current_phase'
          = PhaseRule(pieces_in_hand', pieces_on_board', current_player')

\* The step deselects and changes nothing else.
OnlyDeselects ==
  /\ result' = "true"
  /\ selected_piece' = None
  /\ UNCHANGED << board, pieces_in_hand, pieces_on_board, current_player,
                  current_phase >>

\* The step takes the current player's piece from the selected cell to cell
\* p, clears the selection, keeps the counters and finalizes the turn.
Relocates(p) ==
  /\ board' = [board EXCEPT ![selected_piece] = ".", ![p] = current_player]
  /\ selected_piece' = None
  /\ UNCHANGED << pieces_in_hand, pieces_on_board >>
  /\ TurnFinalized(p)

\* C15: in MOVING with piece s selected, dispatch_action(s) returns true and
\* only clears the selection; dispatch_action(p) with p # s is accepted
\* exactly when p is empty and adjacent to s, and then the piece goes from s
\* to p, the selection is cleared and the turn is finalized; when it is
\* rejected the selection stays s and the board is unchanged.
C15_MovingTarget ==
  [][(Dispatched /\ current_phase = "MOVING" /\ selected_piece # None)
     => (/\ lastPos' = selected_piece => OnlyDeselects
         /\ lastPos' # selected_piece
              => /\ result' = "true"
                      <=> (/\ board[lastPos'] = "."
                           /\ lastPos' \in adjacent_arrays[selected_piece + 1])
                 /\ result' = "true" => Relocates(lastPos')
                 /\ result' # "true"
                      => /\ selected_piece' = selected_piece
                         /\ board' = board)]_vars

\* With a piece selected in MOVING, an empty cell that is not adjacent to it
\* has just been rejected as the target.
C15_Witness ==
  /\ lastOp = "dispatch" /\ result = "false"
  /\ current_phase = "MOVING" /\ selected_piece # None
  /\ board[lastPos] = "."
  /\ lastPos \notin adjacent_arrays[selected_piece + 1]

\* The step takes a piece from cell from to the empty cell to.
Relocated(from, to) ==
  /\ from # to
  /\ board[from] # "." /\ board[to] = "."
  /\ board'[from] = "." /\ board'[to] = board[from]

\* C16: in FLYING with no selection every cell holding the current player's
\* symbol is accepted and becomes the selection; with piece s selected,
\* dispatch_action(p) with p # s is accepted exactly when p is empty; and a
\* dispatch_action call relocates a piece to a cell that is not adjacent to
\* its origin only when the mover has no piece in hand and exactly three on
\* board.
C16_Flying ==
  [][Dispatched
     => (/\ (/\ current_phase = "FLYING" /\ selected_piece = None
             /\ board[lastPos'] = current_player)
              => result' = "true" /\ selected_piece' = lastPos'
         /\ (/\ current_phase = "FLYING" /\ selected_piece # None
             /\ lastPos' # selected_piece)
              => (result' = "true" <=> board[lastPos'] = ".")
         /\ \A from \in {c \in Cells : board[c] # "." /\ board'[c] = "."} :
              \A to \in Cells \ adjacent_arrays[from + 1] :
                Relocated(from, to)
                  => /\ pieces_in_hand[board[from]] = 0
                     /\ pieces_on_board[board[from]] = 3)]_vars

\* A piece has just flown to a cell that is not adjacent to its origin.
C16_Witness ==
  /\ lastOp = "dispatch" /\ result = "true"
  /\ game_history # << >>
  /\ LastEntry.phase = "FLYING"
  /\ LastEntry.board[lastPos] = "." /\ board[lastPos] = LastEntry.player
  /\ \E from \in Cells :
       /\ LastEntry.board[from] = LastEntry.player /\ board[from] = "."
       /\ lastPos \notin adjacent_arrays[from + 1]

\* A set selection is a cell holding the current player's symbol in MOVING
\* or FLYING.
SelectionConsistent ==
  selected_piece # None
    => /\ current_phase \in {"MOVING", "FLYING"}
       /\ board[selected_piece] = current_player

\* C17: after every dispatch_action and undo_action call, a set
\* selected_piece is a cell holding the current player's symbol and the phase
\* is MOVING or FLYING (so it is unset in PLACING, REMOVING_PIECE and
\* GAME_OVER), and selected_piece is unset after every call that changes the
\* current player.
C17_Selection ==
  [][/\ SelectionConsistent'
     /\ current_player' # current_player => selected_piece' = None]_vars

\* C18: there are 16 mill lines of three cells; on every board, for every
\* line whose three cells hold the same symbol X or O,
\* is_position_part_of_mill is true for each of the three positions; and it
\* is true for a position only if the position is occupied and some line
\* containing it has all three cells equal to the position's symbol.
C18_MillDetection ==
  /\ Len(mills_arrays) = 16
  /\ \A m \in 1 .. Len(mills_arrays) :
       /\ Cardinality(mills_arrays[m]) = 3
       /\ mills_arrays[m] \subseteq Cells
       /\ \A s \in Symbols :
            (\A q \in mills_arrays[m] : board[q] = s)
              => \A q \in mills_arrays[m] : is_position_part_of_mill(board, q)
  /\ \A p \in Cells :
       is_position_part_of_mill(board, p)
         => /\ board[p] # "."
            /\ \E m \in 1 .. Len(mills_arrays) :
                 /\ p \in mills_arrays[m]
                 /\ \A q \in mills_arrays[m] : board[q] = board[p]

\* The three cells of a mill line hold the same symbol and the mill test is
\* true on each of them.
C18_Witness ==
  \E m \in 1 .. Len(mills_arrays) :
    /\ \E s \in Symbols : \A q \in mills_arrays[m] : board[q] = s
    /\ \A q \in mills_arrays[m] : is_position_part_of_mill(board, q)

\* Board a results from board b by taking symbol s from cell from to cell to
\* and changing no other cell.
TwoCellsChanged(b, a, from, to, s) ==
  /\ from # to
  /\ b[from] = s /\ a[from] = "."
  /\ b[to] = "." /\ a[to] = s
  /\ \A c \in Cells \ {from, to} : a[c] = b[c]

\* r is the outcome of a relocation of s from cell from to cell to on board
\* b that succeeds exactly under condition legal.
RelocationOutcome(b, r, from, to, s, legal) ==
  /\ r.ok <=> legal
  /\ r.ok => TwoCellsChanged(b, r.board, from, to, s)
  /\ ~r.ok => r.board = b

\* C19: on every board and for all cells from, to and symbols s,
\* move_player_piece succeeds exactly when from holds s, to is empty and to
\* is adjacent to from, and fly_player_piece succeeds exactly when from holds
\* s and to is empty; on success from becomes empty, to becomes s and every
\* other cell is unchanged; on failure no cell changes.
C19_BoardRelocation ==
  \A from, to \in Cells, s \in Symbols :
    /\ RelocationOutcome(board, move_player_piece(board, from, to, s),
                         from, to, s,
                         /\ board[from] = s
                         /\ board[to] = "."
                         /\ to \in adjacent_arrays[from + 1])
    /\ RelocationOutcome(board, fly_player_piece(board, from, to, s),
                         from, to, s,
                         board[from] = s /\ board[to] = ".")

\* A board with pieces of both players on which a piece can fly to a cell it
\* cannot move to.
C19_Witness ==
  /\ \A s \in Symbols : \E c \in Cells : board[c] = s
  /\ \E from, to \in Cells, s \in Symbols :
       /\ fly_player_piece(board, from, to, s).ok
       /\ ~move_player_piece(board, from, to, s).ok

\* The latest call was a dispatch_action made in a phase other than
\* GAME_OVER: a call made in GAME_OVER is rejected and leaves the phase.
DispatchedInPlay ==
  /\ lastOp = "dispatch"
  /\ current_phase # "GAME_OVER" \/ result = "true"

\* C20: a dispatch_action(p) made in PLACING, MOVING, FLYING or
\* REMOVING_PIECE appends exactly one entry to game_history, holding the
\* board, current player and phase as they were before the call and p,
\* whether the call is accepted or rejected; one made in GAME_OVER appends
\* nothing; an undo_action right after a dispatch_action made outside
\* GAME_OVER removes that entry and sets board, current player and phase to
\* the values it holds.
C20_SessionLog ==
  [][/\ (Dispatched /\ current_phase # "GAME_OVER")
          => game_history'
               = Append(game_history,
                        [board |-> board, player |-> current_player,
                         phase |-> current_phase, position |-> lastPos'])
     /\ (Dispatched /\ current_phase = "GAME_OVER")
          => game_history' = game_history
     /\ (lastOp' = "undo" /\ DispatchedInPlay)
          => /\ result' = "true"
             /\ LastEntry.position = lastPos
             /\ board' = LastEntry.board
             /\ current_player' = LastEntry.player
             /\ current_phase' = LastEntry.phase
             /\ game_history'
                  = SubSeq(game_history, 1, Len(game_history) - 1)]_vars

\* A rejected call made outside GAME_OVER has just been recorded.
C20_Witness ==
  /\ lastOp = "dispatch" /\ result = "false"
  /\ current_phase # "GAME_OVER"
  /\ game_history # << >>
  /\ LastEntry = [board |-> board, player |-> current_player,
                  phase |-> current_phase, position |-> lastPos]

\* C21: in runs of dispatch_action calls, dispatch_action(p) for a position
\* p of 0..23 is accepted exactly when p is in the set returned by
\* possible_legal_moves in the state of the call or p is the selected piece.
C21_LegalMovesAccepted ==
  [][Dispatched
     => (result' = "true"
           <=> \/ lastPos' \in possible_legal_moves(G)
               \/ lastPos' = selected_piece)]_vars

\* In MOVING an own piece that possible_legal_moves does not offer, because
\* it has no empty adjacent cell, has just been rejected while another piece
\* was on offer.
C21_Witness ==
  /\ lastOp = "dispatch" /\ result = "false"
  /\ current_phase = "MOVING" /\ selected_piece = None
  /\ board[lastPos] = current_player
  /\ lastPos \notin possible_legal_moves(G)
  /\ possible_legal_moves(G) # {}

\* C22: in every state of a run of dispatch_action calls whose phase is not
\* GAME_OVER, possible_legal_moves is not empty and dispatch_action(p) is
\* accepted for at least one position p of 0..23.
C22_NoStuckState ==
  current_phase # "GAME_OVER"
    => /\ possible_legal_moves(G) # {}
       /\ \E p \in Cells : handle_action(G, p).ret = "true"

C24_RemovingHasMill ==
  current_phase = "REMOVING_PIECE"
    => /\ \E m \in 1 .. Len(mills_arrays) :
            \A q \in mills_arrays[m] : board[q] = current_player
       /\ Count(board, Opp(current_player)) >= 1
       /\ pieces_on_board[Opp(current_player)] >= 1
       /\ get_allowed_removals(G) # {}

\* A move to an adjacent cell has just completed a mill and the mover is to
\* remove a piece.
C24_Witness ==
  /\ lastOp = "dispatch" /\ result = "true"
  /\ current_phase = "REMOVING_PIECE"
  /\ game_history # << >>
  /\ LastEntry.phase = "MOVING"
  /\ InCompletedMill(board, lastPos, current_player)

====
